---- MODULE Spec2Model ----
(***************************************************************************)
(* Model of the file server in src/main.go: the path-safety check          *)
(* (Server.isPathSafe), the request handler (Server.handleRequest) and the *)
(* two responders (Server.handleDirectory, Server.handleFile).             *)
(*                                                                         *)
(* A path is a sequence of one-character strings.  The filesystem, the     *)
(* template engine and the clock are the environment: every call into      *)
(* them is a nondeterministic choice over the outcomes the call can have.  *)
(* Requests share no state (the Server is read-only after NewServer), so   *)
(* one request is followed at a time; the directory-read goroutine of a    *)
(* request is followed until it exits.                                     *)
(***************************************************************************)
EXTENDS Integers, Sequences, FiniteSets, TLC

\* Longest request path that is tried.
MaxLen == 5

\* Number of pieces in which the template writes a listing page.
RenderChunks == 2

Sep == "/"

\* The characters request paths are made of: the separator, the dot and a
\* name character.
Alphabet == {"/", ".", "w"}

\* The absolute, clean root directories NewServer can have stored.
Roots == { <<"/", "w">>, <<"/", "w", "/", "w">> }

Methods == {"GET", "POST", "HEAD"}

RECURSIVE PathsOfLen(_)
PathsOfLen(n) ==
    IF n = 0 THEN { <<>> }
    ELSE { Append(p, c) : p \in PathsOfLen(n - 1), c \in Alphabet }

RequestPaths == UNION { PathsOfLen(n) : n \in 0..MaxLen }

----------------------------------------------------------------------------
(* path/filepath, as called from isPathSafe and handleRequest *)

\* The ".." case of filepath.Clean when there is something to drop:
\* out.w--, then back to the previous separator, never below dotdot.
RECURSIVE Backtrack(_, _, _)
Backtrack(out, w, dotdot) ==
    IF w > dotdot /\ out[w + 1] # Sep
    THEN Backtrack(out, w - 1, dotdot)
    ELSE SubSeq(out, 1, w)

\* Index just after the path element that starts at r.
RECURSIVE ElemEnd(_, _)
ElemEnd(path, r) ==
    IF r > Len(path) \/ path[r] = Sep THEN r ELSE ElemEnd(path, r + 1)

\* The scanning loop of filepath.Clean; r is the (1-based) read position.
RECURSIVE CleanLoop(_, _, _, _, _)
CleanLoop(path, r, out, dotdot, rooted) ==
    LET n == Len(path) IN
    IF r > n THEN out
    ELSE IF path[r] = Sep
    THEN CleanLoop(path, r + 1, out, dotdot, rooted)
    ELSE IF path[r] = "." /\ (r + 1 > n \/ path[r + 1] = Sep)
    THEN CleanLoop(path, r + 1, out, dotdot, rooted)
    ELSE IF /\ path[r] = "."
            /\ r + 1 <= n
            /\ path[r + 1] = "."
            /\ (r + 2 > n \/ path[r + 2] = Sep)
    THEN IF Len(out) > dotdot
         THEN CleanLoop(path, r + 2, Backtrack(out, Len(out) - 1, dotdot),
                        dotdot, rooted)
         ELSE IF ~rooted
         THEN LET o2 == (IF Len(out) > 0 THEN Append(out, Sep) ELSE out)
                            \o <<".", ".">>
              IN  CleanLoop(path, r + 2, o2, Len(o2), rooted)
         ELSE CleanLoop(path, r + 2, out, dotdot, rooted)
    ELSE LET o1 == IF (rooted /\ Len(out) # 1) \/ (~rooted /\ Len(out) # 0)
                   THEN Append(out, Sep) ELSE out
             e  == ElemEnd(path, r)
         IN  CleanLoop(path, e, o1 \o SubSeq(path, r, e - 1), dotdot, rooted)

\* filepath.Clean
Clean(path) ==
    IF path = <<>> THEN <<".">>
    ELSE LET rooted == path[1] = Sep
             res    == IF rooted
                       THEN CleanLoop(path, 2, <<Sep>>, 1, TRUE)
                       ELSE CleanLoop(path, 1, <<>>, 0, FALSE)
         IN  IF res = <<>> THEN <<".">> ELSE res

\* filepath.Join(a, b) with a non-empty: empty elements are dropped, the
\* rest are joined by the separator and the result is cleaned.
Join(a, b) ==
    IF b = <<>> THEN Clean(a) ELSE Clean(a \o <<Sep>> \o b)

\* filepath.Abs of an absolute path (fullPath always is one, rootDir being
\* absolute): the cleaned path, no error.
Abs(path) == Clean(path)

\* strings.HasPrefix
HasPrefix(s, prefix) ==
    /\ Len(s) >= Len(prefix)
    /\ SubSeq(s, 1, Len(prefix)) = prefix

\* The absolute path isPathSafe examines.
SafeAbsPath(root, requestPath) ==
    Abs(Join(root, Clean(requestPath)))

\* The comparison isPathSafe makes: a plain string prefix.
PrefixAccepted(absPath, root) == HasPrefix(absPath, root)

isPathSafe(root, requestPath) ==
    PrefixAccepted(SafeAbsPath(root, requestPath), root)

\* The path handleRequest stats and hands to the responders.
FullPath(root, requestPath) == Join(root, requestPath)

\* p is the root or lies below it.
Inside(p, root) == p = root \/ HasPrefix(p, Append(root, Sep))

----------------------------------------------------------------------------
(* http.ResponseWriter, as used through http.Error and template output *)

NoResponse == [status |-> 0, body |-> <<>>]

\* WriteHeader: only the first status sent counts.
WriteHeader(rw, code) ==
    [rw EXCEPT !.status = IF rw.status = 0 THEN code ELSE rw.status]

\* Write: sends 200 first when no status has been sent yet.
Write(rw, chunk) ==
    [status |-> IF rw.status = 0 THEN 200 ELSE rw.status,
     body   |-> Append(rw.body, chunk)]

\* http.Error(w, msg, code)
Error(rw, msg, code) == Write(WriteHeader(rw, code), msg)

----------------------------------------------------------------------------
(* State *)

VARIABLES
    rootDir,      \* Server.rootDir, fixed by NewServer
    pc,           \* where the handler of the current request is
    method,       \* r.Method
    requestPath,  \* r.URL.Path
    fullPath,     \* handleRequest's fullPath, <<>> before it is computed
    mountRes,     \* result of checkMountPointHealth: "none", "ok", "err"
    statRes,      \* result of os.Stat(fullPath), "none" before the call
    readRes,      \* what the handler took from resultChan, "none" before
    renderRes,    \* result of ExecuteTemplate: "none", "ok", "failed"
    w,            \* the response written so far
    ops,          \* the safety check and the filesystem calls made, in order
    ctxDone,      \* the request context's deadline has passed
    gpc,          \* where the directory-read goroutine is
    gRes,         \* the goroutine's readResult, "none" before it has one
    resultChan,   \* the buffered channel (capacity 1)
    handles       \* the file and directory handles that are open

\* The process around the handler: main, Server.Start and Server.Shutdown.
VARIABLES
    mpc,          \* where main is: "select", "shutdown", "draining", "exited"
    spc,          \* where the goroutine running server.Start() is
    httpServer,   \* Server.httpServer is set (TRUE) or still nil (FALSE)
    sigChan,      \* number of signals waiting in sigChan (capacity 1)
    serverErr,    \* the buffered channel serverErr (capacity 1)
    inShutdown,   \* http.Server.Shutdown has been called on the server
    listening,    \* the listener is open and accepts connections
    active,       \* number of requests in flight
    graceDone,    \* the 30s context of the shutdown has expired
    exitCode,     \* the process's exit status, -1 while it runs
    sigArrived,   \* a SIGINT or SIGTERM has arrived
    startErr      \* ListenAndServe has failed

mainVars == <<mpc, spc, httpServer, sigChan, serverErr, inShutdown, listening,
              active, graceDone, exitCode, sigArrived, startErr>>

\* One rendering of a directory listing, followed on its own: the
\* directory read by os.ReadDir and the FileInfos built from it and sorted.
VARIABLES
    lpc,          \* "idle", "populated", "built", "sorted"
    dirContents,  \* the entries of the directory
    skipped,      \* the entries whose entry.Info() failed
    files         \* handleDirectory's files slice

listVars == <<lpc, dirContents, skipped, files>>

ListInit ==
    /\ lpc = "idle"
    /\ dirContents = {}
    /\ skipped = {}
    /\ files = <<>>

\* One call of formatSize, followed on its own.  An int64 size is held as
\* its base-1024 digits, most significant first, without leading zeros
\* (0 is <<0>>): 1536 is <<1, 512>>, 1048576 is <<1, 0, 0>>.
VARIABLES
    fpc,          \* "idle", "called", "returned"
    size,         \* the argument of formatSize
    sizeStr       \* the string formatSize returned

sizeVars == <<fpc, size, sizeStr>>

SizeInit ==
    /\ fpc = "idle"
    /\ size = <<0>>
    /\ sizeStr = ""

\* The variables the request handler does not touch.
otherVars == <<mainVars, listVars, sizeVars>>

handlerVars == <<rootDir, pc, method, requestPath, fullPath, mountRes,
                 statRes, readRes, renderRes, w, ops, ctxDone, gpc, gRes,
                 resultChan, handles>>

vars == <<handlerVars, otherVars>>

\* main after NewServer, signal.Notify and the go statement: it waits in
\* its select, the goroutine has not yet run server.Start().
MainInit ==
    /\ mpc = "select"
    /\ spc = "new"
    /\ httpServer = FALSE
    /\ sigChan = 0
    /\ serverErr = <<>>
    /\ inShutdown = FALSE
    /\ listening = FALSE
    /\ active = 0
    /\ graceDone = FALSE
    /\ exitCode = -1
    /\ sigArrived = FALSE
    /\ startErr = FALSE

\* The handler has been entered and has not returned.
Running == pc \notin {"idle", "done"}

Init ==
    /\ rootDir \in Roots
    /\ pc = "idle"
    /\ method = "GET"
    /\ requestPath = <<>>
    /\ fullPath = <<>>
    /\ mountRes = "none"
    /\ statRes = "none"
    /\ readRes = "none"
    /\ renderRes = "none"
    /\ w = NoResponse
    /\ ops = <<>>
    /\ ctxDone = FALSE
    /\ gpc = "none"
    /\ gRes = "none"
    /\ resultChan = <<>>
    /\ handles = {}
    /\ MainInit
    /\ ListInit
    /\ SizeInit

----------------------------------------------------------------------------
(* handleRequest *)

\* The server calls the handler with a request; the handler makes the
\* request's context with its 30s deadline.  The handler is an
\* http.HandlerFunc and is followed for every method and every path it can
\* be called with, whatever the router in front of it lets through.
ServeHTTP(m, p) ==
    /\ pc = "idle"
    /\ pc' = "checkMethod"
    /\ method' = m
    /\ requestPath' = p
    /\ UNCHANGED otherVars
    /\ UNCHANGED <<rootDir, fullPath, mountRes, statRes, readRes, renderRes,
                   w, ops, ctxDone, gpc, gRes, resultChan, handles>>

\* The handler has returned and the request's goroutine, if any, has ended:
\* the response is complete and the server waits for the next request.
NextRequest ==
    /\ pc = "done"
    /\ gpc \in {"none", "exited"}
    /\ pc' = "idle"
    /\ method' = "GET"
    /\ requestPath' = <<>>
    /\ fullPath' = <<>>
    /\ mountRes' = "none"
    /\ statRes' = "none"
    /\ readRes' = "none"
    /\ renderRes' = "none"
    /\ w' = NoResponse
    /\ ops' = <<>>
    /\ ctxDone' = FALSE
    /\ gpc' = "none"
    /\ gRes' = "none"
    /\ resultChan' = <<>>
    /\ handles' = {}
    /\ UNCHANGED <<rootDir, otherVars>>

\* The context's deadline passes while the handler is running.
DeadlineFires ==
    /\ Running
    /\ ~ctxDone
    /\ ctxDone' = TRUE
    /\ UNCHANGED otherVars
    /\ UNCHANGED <<rootDir, pc, method, requestPath, fullPath, mountRes,
                   statRes, readRes, renderRes, w, ops, gpc, gRes,
                   resultChan, handles>>

\* A faulty variant that lets POST through.
MethodAllowedMut(m) == m \in {"GET", "POST"}

MethodAllowed(m) == m = "GET"

CheckMethod ==
    /\ pc = "checkMethod"
    /\ IF MethodAllowed(method)
       THEN /\ pc' = "checkPath"
            /\ w' = w
       ELSE /\ pc' = "done"
            /\ w' = Error(w, "Method not allowed", 405)
    /\ UNCHANGED otherVars
    /\ UNCHANGED <<rootDir, method, requestPath, fullPath, mountRes, statRes,
                   readRes, renderRes, ops, ctxDone, gpc, gRes, resultChan,
                   handles>>

CheckPath ==
    /\ pc = "checkPath"
    /\ ops' = Append(ops, <<"isPathSafe", requestPath>>)
    /\ IF isPathSafe(rootDir, requestPath)
       THEN /\ pc' = "mount"
            /\ fullPath' = FullPath(rootDir, requestPath)
            /\ w' = w
       ELSE /\ pc' = "done"
            /\ fullPath' = fullPath
            /\ w' = Error(w, "Access denied", 403)
    /\ UNCHANGED otherVars
    /\ UNCHANGED <<rootDir, method, requestPath, mountRes, statRes, readRes,
                   renderRes, ctxDone, gpc, gRes, resultChan, handles>>

\* checkMountPointHealth(s.rootDir): os.ReadDir of the root, which opens,
\* reads and closes the root directory before it returns.
MountCheck ==
    /\ pc = "mount"
    /\ ops' = Append(ops, <<"ReadDir", rootDir>>)
    /\ \E res \in {"ok", "err"} :
         /\ mountRes' = res
         /\ IF res = "ok"
            THEN /\ pc' = "stat"
                 /\ w' = w
            ELSE /\ pc' = "done"
                 /\ w' = Error(w, "Storage temporarily unavailable", 503)
    /\ UNCHANGED otherVars
    /\ UNCHANGED <<rootDir, method, requestPath, fullPath, statRes, readRes,
                   renderRes, ctxDone, gpc, gRes, resultChan, handles>>

\* What os.Stat can return: three kinds of error, or the entry's type.
StatErrors == {"notexist", "permission", "ioerror"}
StatTypes == {"dir", "file", "special"}

\* A faulty variant that reports a permission error as a server error.
StatStatusMut(res) ==
    IF res = "notexist" THEN 404 ELSE 500

\* The status handleRequest answers a failed stat with.
StatStatus(res) ==
    IF res = "notexist" THEN 404
    ELSE IF res = "permission" THEN 403
    ELSE 500

StatMessage(res) ==
    IF res = "notexist" THEN "Not found"
    ELSE IF res = "permission" THEN "Access denied"
    ELSE "Internal server error"

Stat ==
    /\ pc = "stat"
    /\ ops' = Append(ops, <<"Stat", fullPath>>)
    /\ \E res \in StatErrors \cup StatTypes :
         /\ statRes' = res
         /\ IF res \in StatErrors
            THEN /\ pc' = "done"
                 /\ w' = Error(w, StatMessage(res), StatStatus(res))
            ELSE /\ pc' = IF res = "dir" THEN "dirSpawn" ELSE "fileOpen"
                 /\ w' = w
    /\ UNCHANGED otherVars
    /\ UNCHANGED <<rootDir, method, requestPath, fullPath, mountRes, readRes,
                   renderRes, ctxDone, gpc, gRes, resultChan, handles>>

----------------------------------------------------------------------------
(* handleDirectory *)

\* make(chan readResult, 1) and the go statement.
DirSpawn ==
    /\ pc = "dirSpawn"
    /\ pc' = "select"
    /\ gpc' = "open"
    /\ resultChan' = <<>>
    /\ UNCHANGED otherVars
    /\ UNCHANGED <<rootDir, method, requestPath, fullPath, mountRes, statRes,
                   readRes, renderRes, w, ops, ctxDone, gRes, handles>>

\* The goroutine's os.ReadDir(fullPath), first half: the directory is
\* opened, or the open fails and ReadDir returns the error.
GoOpen ==
    /\ gpc = "open"
    /\ ops' = Append(ops, <<"ReadDir", fullPath>>)
    /\ \E res \in {"ok", "permission", "ioerror"} :
         IF res = "ok"
         THEN /\ handles' = handles \cup {"dir"}
              /\ gpc' = "reading"
              /\ gRes' = gRes
         ELSE /\ handles' = handles
              /\ gpc' = "send"
              /\ gRes' = res
    /\ UNCHANGED otherVars
    /\ UNCHANGED <<rootDir, pc, method, requestPath, fullPath, mountRes,
                   statRes, readRes, renderRes, w, ctxDone, resultChan>>

\* os.ReadDir, second half: the entries are read (or the read fails) and
\* ReadDir's deferred Close releases the directory.
GoRead ==
    /\ gpc = "reading"
    /\ handles' = handles \ {"dir"}
    /\ gpc' = "send"
    /\ \E res \in {"ok", "ioerror"} : gRes' = res
    /\ UNCHANGED otherVars
    /\ UNCHANGED <<rootDir, pc, method, requestPath, fullPath, mountRes,
                   statRes, readRes, renderRes, w, ops, ctxDone, resultChan>>

\* A faulty variant: a channel made without a buffer, whose send waits for
\* a receiver.
CanSendMut(ch) == Len(ch) < 0

\* A send on the channel of make(chan readResult, 1) goes through when the
\* buffer has room.
CanSend(ch) == Len(ch) < 1

\* resultChan <- readResult{entries, err}; the goroutine then ends.
GoSend ==
    /\ gpc = "send"
    /\ CanSend(resultChan)
    /\ resultChan' = Append(resultChan, gRes)
    /\ gpc' = "exited"
    /\ UNCHANGED otherVars
    /\ UNCHANGED <<rootDir, pc, method, requestPath, fullPath, mountRes,
                   statRes, readRes, renderRes, w, ops, ctxDone, gRes,
                   handles>>

\* The status handleDirectory and handleFile answer a failed read or open
\* with.
ReadErrorStatus(res) == IF res = "permission" THEN 403 ELSE 500

\* select, case result := <-resultChan, and the error check after it.  On
\* success the entries are turned into FileInfos and sorted, which touches
\* nothing outside the handler.
SelectResult ==
    /\ pc = "select"
    /\ resultChan # <<>>
    /\ readRes' = Head(resultChan)
    /\ resultChan' = Tail(resultChan)
    /\ IF Head(resultChan) = "ok"
       THEN /\ pc' = "render"
            /\ w' = w
       ELSE /\ pc' = "done"
            /\ w' = Error(w,
                          IF Head(resultChan) = "permission"
                          THEN "Access denied" ELSE "Failed to read directory",
                          ReadErrorStatus(Head(resultChan)))
    /\ UNCHANGED otherVars
    /\ UNCHANGED <<rootDir, method, requestPath, fullPath, mountRes, statRes,
                   renderRes, ops, ctxDone, gpc, gRes, handles>>

\* select, case <-ctx.Done().
SelectTimeout ==
    /\ pc = "select"
    /\ ctxDone
    /\ pc' = "done"
    /\ w' = Error(w, "Request timeout", 408)
    /\ UNCHANGED otherVars
    /\ UNCHANGED <<rootDir, method, requestPath, fullPath, mountRes, statRes,
                   readRes, renderRes, ops, ctxDone, gpc, gRes, resultChan,
                   handles>>

\* The response after the template has written n pieces of the page.
RECURSIVE WritePieces(_, _)
WritePieces(rw, n) ==
    IF n = 0 THEN rw ELSE Write(WritePieces(rw, n - 1), "html")

\* s.template.ExecuteTemplate(w, ...) writes the page to w piece by piece;
\* it either writes all of it or fails after some (possibly none) of it,
\* and on failure the handler calls http.Error.
Render ==
    /\ pc = "render"
    /\ pc' = "done"
    /\ \/ /\ renderRes' = "ok"
          /\ w' = WritePieces(w, RenderChunks)
       \/ \E n \in 0..(RenderChunks - 1) :
            /\ renderRes' = "failed"
            /\ w' = Error(WritePieces(w, n), "Internal server error", 500)
    /\ UNCHANGED otherVars
    /\ UNCHANGED <<rootDir, method, requestPath, fullPath, mountRes, statRes,
                   readRes, ops, ctxDone, gpc, gRes, resultChan, handles>>

----------------------------------------------------------------------------
(* handleFile *)

FileOpen ==
    /\ pc = "fileOpen"
    /\ ops' = Append(ops, <<"Open", fullPath>>)
    /\ \E res \in {"ok", "permission", "ioerror"} :
         IF res = "ok"
         THEN /\ handles' = handles \cup {"file"}
              /\ pc' = "fileStat"
              /\ w' = w
         ELSE /\ handles' = handles
              /\ pc' = "done"
              /\ w' = Error(w,
                            IF res = "permission"
                            THEN "Access denied" ELSE "Failed to open file",
                            ReadErrorStatus(res))
    /\ UNCHANGED otherVars
    /\ UNCHANGED <<rootDir, method, requestPath, fullPath, mountRes, statRes,
                   readRes, renderRes, ctxDone, gpc, gRes, resultChan>>

\* file.Stat() and the directory guard; a return runs the deferred
\* file.Close().
FileStat ==
    /\ pc = "fileStat"
    /\ \E res \in {"ok", "ioerror", "dir"} :
         IF res = "ok"
         THEN /\ pc' = "serve"
              /\ w' = w
              /\ handles' = handles
         ELSE /\ pc' = "done"
              /\ w' = IF res = "dir"
                      THEN Error(w, "Cannot serve directory as file", 400)
                      ELSE Error(w, "Failed to get file info", 500)
              /\ handles' = handles \ {"file"}
    /\ UNCHANGED otherVars
    /\ UNCHANGED <<rootDir, method, requestPath, fullPath, mountRes, statRes,
                   readRes, renderRes, ops, ctxDone, gpc, gRes, resultChan>>

\* What http.ServeContent can answer, by the request's headers and by
\* whether the opened file can be seeked.
ServeOutcomes == {"full", "partial", "notModified", "badRange", "seekFailed"}

ServeResponse(rw, outcome) ==
    IF outcome = "full" THEN Write(WriteHeader(rw, 200), "content")
    ELSE IF outcome = "partial" THEN Write(WriteHeader(rw, 206), "content")
    ELSE IF outcome = "notModified" THEN WriteHeader(rw, 304)
    ELSE IF outcome = "badRange" THEN Error(rw, "invalid range", 416)
    ELSE Error(rw, "seeker can't seek", 500)

\* http.ServeContent, then the return with the deferred file.Close().
Serve ==
    /\ pc = "serve"
    /\ pc' = "done"
    /\ handles' = handles \ {"file"}
    /\ \E outcome \in ServeOutcomes :
         /\ w' = ServeResponse(w, outcome)
         /\ ops' = IF outcome \in {"full", "partial"}
                   THEN Append(ops, <<"Read", fullPath>>)
                   ELSE ops
    /\ UNCHANGED otherVars
    /\ UNCHANGED <<rootDir, method, requestPath, fullPath, mountRes, statRes,
                   readRes, renderRes, ctxDone, gpc, gRes, resultChan>>

----------------------------------------------------------------------------

Next ==
    \/ \E m \in Methods, p \in RequestPaths : ServeHTTP(m, p)
    \/ NextRequest
    \/ DeadlineFires
    \/ CheckMethod
    \/ CheckPath
    \/ MountCheck
    \/ Stat
    \/ DirSpawn
    \/ GoOpen
    \/ GoRead
    \/ GoSend
    \/ SelectResult
    \/ SelectTimeout
    \/ Render
    \/ FileOpen
    \/ FileStat
    \/ Serve

Spec == Init /\ [][Next]_vars

\* The select statement of handleDirectory: either case.
Select == SelectResult \/ SelectTimeout

\* GET requests for the root directory and for an entry of it.
DirRequests == {<<"/">>, <<"/", "w">>}

\* The handler serving those requests.
DirNext ==
    \/ \E p \in DirRequests : ServeHTTP("GET", p)
    \/ NextRequest
    \/ DeadlineFires
    \/ CheckMethod
    \/ CheckPath
    \/ MountCheck
    \/ Stat
    \/ DirSpawn
    \/ GoOpen
    \/ GoRead
    \/ GoSend
    \/ SelectResult
    \/ SelectTimeout
    \/ Render
    \/ FileOpen
    \/ FileStat
    \/ Serve

\* The Go scheduler runs a goroutine that can run: a send that has room
\* goes through and a select with a ready case proceeds.  Nothing makes
\* os.ReadDir return, so the read has no fairness.
DirSpec ==
    /\ Init
    /\ [][DirNext]_vars
    /\ WF_vars(GoSend)
    /\ WF_vars(Select)

----------------------------------------------------------------------------
(* main, Server.Start and Server.Shutdown *)

\* Most requests that are followed in flight at once.
MaxConns == 2

\* The process is running.
Alive == exitCode = -1

\* SIGINT or SIGTERM arrives; signal.Notify puts it in sigChan, or drops it
\* when the channel (capacity 1) is full.
Signal ==
    /\ Alive
    /\ sigArrived' = TRUE
    /\ sigChan' = 1
    /\ UNCHANGED <<mpc, spc, httpServer, serverErr, inShutdown, listening,
                   active, graceDone, exitCode, startErr>>
    /\ UNCHANGED <<handlerVars, listVars, sizeVars>>

\* Server.Start up to ListenAndServe: the mux and s.httpServer are made.
StartCreate ==
    /\ Alive
    /\ spc = "new"
    /\ httpServer' = TRUE
    /\ spc' = "created"
    /\ UNCHANGED <<mpc, sigChan, serverErr, inShutdown, listening, active,
                   graceDone, exitCode, sigArrived, startErr>>
    /\ UNCHANGED <<handlerVars, listVars, sizeVars>>

\* s.httpServer.ListenAndServe(): after Shutdown it returns
\* http.ErrServerClosed at once; otherwise the listener opens, or opening
\* it fails (port in use, no permission).
Listen ==
    /\ Alive
    /\ spc = "created"
    /\ IF inShutdown
       THEN /\ spc' = "ended"
            /\ UNCHANGED <<listening, startErr>>
       ELSE \/ /\ spc' = "serving"
               /\ listening' = TRUE
               /\ UNCHANGED startErr
            \/ /\ spc' = "failed"
               /\ startErr' = TRUE
               /\ UNCHANGED listening
    /\ UNCHANGED <<mpc, httpServer, sigChan, serverErr, inShutdown, active,
                   graceDone, exitCode, sigArrived>>
    /\ UNCHANGED <<handlerVars, listVars, sizeVars>>

\* serverErr <- err, for an error other than http.ErrServerClosed.
SendErr ==
    /\ Alive
    /\ spc = "failed"
    /\ Len(serverErr) < 1
    /\ serverErr' = Append(serverErr, "err")
    /\ spc' = "ended"
    /\ UNCHANGED <<mpc, httpServer, sigChan, inShutdown, listening, active,
                   graceDone, exitCode, sigArrived, startErr>>
    /\ UNCHANGED <<handlerVars, listVars, sizeVars>>

\* ListenAndServe returns http.ErrServerClosed once Shutdown has closed the
\* listener; the goroutine sends nothing and ends.
ServeReturns ==
    /\ Alive
    /\ spc = "serving"
    /\ inShutdown
    /\ spc' = "ended"
    /\ UNCHANGED <<mpc, httpServer, sigChan, serverErr, inShutdown, listening,
                   active, graceDone, exitCode, sigArrived, startErr>>
    /\ UNCHANGED <<handlerVars, listVars, sizeVars>>

\* The listener accepts a connection and its request is handed to
\* handleRequest.
Accept ==
    /\ Alive
    /\ listening
    /\ active < MaxConns
    /\ active' = active + 1
    /\ UNCHANGED <<mpc, spc, httpServer, sigChan, serverErr, inShutdown,
                   listening, graceDone, exitCode, sigArrived, startErr>>
    /\ UNCHANGED <<handlerVars, listVars, sizeVars>>

\* A request in flight is answered and its connection goes idle.
Finish ==
    /\ Alive
    /\ active > 0
    /\ active' = active - 1
    /\ UNCHANGED <<mpc, spc, httpServer, sigChan, serverErr, inShutdown,
                   listening, graceDone, exitCode, sigArrived, startErr>>
    /\ UNCHANGED <<handlerVars, listVars, sizeVars>>

\* The process ends with the given status; the listener and every
\* connection it still has are closed with it.
Exit(code) ==
    /\ exitCode' = code
    /\ mpc' = "exited"
    /\ listening' = FALSE
    /\ active' = 0

\* main's select, case sig := <-sigChan.
MainSelectSignal ==
    /\ Alive
    /\ mpc = "select"
    /\ sigChan > 0
    /\ sigChan' = sigChan - 1
    /\ mpc' = "shutdown"
    /\ UNCHANGED <<spc, httpServer, serverErr, inShutdown, listening, active,
                   graceDone, exitCode, sigArrived, startErr>>
    /\ UNCHANGED <<handlerVars, listVars, sizeVars>>

\* A faulty variant that only logs the error and returns from main.
MainSelectErrMut ==
    /\ Alive
    /\ mpc = "select"
    /\ serverErr # <<>>
    /\ serverErr' = Tail(serverErr)
    /\ Exit(0)
    /\ UNCHANGED <<spc, httpServer, sigChan, inShutdown, graceDone,
                   sigArrived, startErr>>
    /\ UNCHANGED <<handlerVars, listVars, sizeVars>>

\* main's select, case err := <-serverErr: log.Fatal exits with status 1.
MainSelectErr ==
    /\ Alive
    /\ mpc = "select"
    /\ serverErr # <<>>
    /\ serverErr' = Tail(serverErr)
    /\ Exit(1)
    /\ UNCHANGED <<spc, httpServer, sigChan, inShutdown, graceDone,
                   sigArrived, startErr>>
    /\ UNCHANGED <<handlerVars, listVars, sizeVars>>

\* server.Shutdown(ctx) with the 30s context.  s.httpServer is read
\* without synchronization with the goroutine that writes it, so the read
\* gives the value written or still nil.  With nil, Shutdown returns nil
\* and main returns.  Otherwise http.Server.Shutdown closes the listener
\* and waits for the requests in flight.
ShutdownCall ==
    /\ Alive
    /\ mpc = "shutdown"
    /\ \E seen \in {httpServer, FALSE} :
         IF seen
         THEN /\ inShutdown' = TRUE
              /\ listening' = FALSE
              /\ mpc' = "draining"
              /\ UNCHANGED <<active, exitCode>>
         ELSE /\ Exit(0)
              /\ UNCHANGED inShutdown
    /\ UNCHANGED <<spc, httpServer, sigChan, serverErr, graceDone, sigArrived,
                   startErr>>
    /\ UNCHANGED <<handlerVars, listVars, sizeVars>>

\* http.Server.Shutdown finds no request in flight and returns nil; main
\* prints and returns.
DrainDone ==
    /\ Alive
    /\ mpc = "draining"
    /\ active = 0
    /\ Exit(0)
    /\ UNCHANGED <<spc, httpServer, sigChan, serverErr, inShutdown, graceDone,
                   sigArrived, startErr>>
    /\ UNCHANGED <<handlerVars, listVars, sizeVars>>

\* The 30s context expires with requests still in flight:
\* http.Server.Shutdown returns the context's error, main logs it and
\* returns.
ShutdownTimeout ==
    /\ Alive
    /\ mpc = "draining"
    /\ active > 0
    /\ graceDone' = TRUE
    /\ Exit(0)
    /\ UNCHANGED <<spc, httpServer, sigChan, serverErr, inShutdown,
                   sigArrived, startErr>>
    /\ UNCHANGED <<handlerVars, listVars, sizeVars>>

\* The steps of main and of its timer.
MainStep ==
    \/ MainSelectSignal
    \/ MainSelectErr
    \/ ShutdownCall
    \/ DrainDone
    \/ ShutdownTimeout

MainNext ==
    \/ Signal
    \/ StartCreate
    \/ Listen
    \/ SendErr
    \/ ServeReturns
    \/ Accept
    \/ Finish
    \/ MainSelectSignal
    \/ MainSelectErr
    \/ ShutdownCall
    \/ DrainDone
    \/ ShutdownTimeout

\* The scheduler runs main and the goroutine whenever they can take a step,
\* and the shutdown context's timer fires.
MainSpec ==
    /\ Init
    /\ [][MainNext]_vars
    /\ WF_vars(MainStep)
    /\ WF_vars(SendErr)

----------------------------------------------------------------------------
(* The listing order of handleDirectory *)

\* Most entries a directory is given.
MaxEntries == 3

\* The file names that are tried, as sequences of characters: names that
\* differ only in letter case, and names that are prefixes of others.
Names ==
    { <<"A">>, <<"a">>, <<"B">>, <<"b">>, <<"a", "b">>, <<"A", "b">>,
      <<"a", "B">> }

\* The byte of a character.
Byte(c) ==
    IF c = "A" THEN 65 ELSE IF c = "B" THEN 66 ELSE IF c = "a" THEN 97 ELSE 98

\* Go's s < t on strings: bytewise lexicographic.
RECURSIVE StrLess(_, _)
StrLess(s, t) ==
    IF t = <<>> THEN FALSE
    ELSE IF s = <<>> THEN TRUE
    ELSE IF Byte(Head(s)) # Byte(Head(t)) THEN Byte(Head(s)) < Byte(Head(t))
    ELSE StrLess(Tail(s), Tail(t))

\* strings.ToLower
ToLower(s) ==
    [i \in DOMAIN s |-> IF s[i] = "A" THEN "a" ELSE IF s[i] = "B" THEN "b" ELSE s[i]]

\* The directories that are tried: up to MaxEntries entries with distinct
\* names, each a directory or a file.
Directories ==
    { S \in SUBSET (Names \X BOOLEAN) :
        /\ Cardinality(S) <= MaxEntries
        /\ \A x, y \in S : x[1] = y[1] => x = y }

\* os.ReadDir returns the entries sorted by filename.
RECURSIVE ReadDirOrder(_)
ReadDirOrder(S) ==
    IF S = {} THEN <<>>
    ELSE LET m == CHOOSE x \in S : \A y \in S \ {x} : StrLess(x.Name, y.Name)
         IN  <<m>> \o ReadDirOrder(S \ {m})

\* The loop over entries: a FileInfo is appended for every entry whose
\* Info() succeeds, in the order of the entries.
RECURSIVE BuildFiles(_, _)
BuildFiles(entries, skip) ==
    IF entries = <<>> THEN <<>>
    ELSE IF Head(entries) \in skip THEN BuildFiles(Tail(entries), skip)
    ELSE <<Head(entries)>> \o BuildFiles(Tail(entries), skip)

\* A faulty comparison that forgets to put directories first.
LessMut(x, y) == StrLess(ToLower(x.Name), ToLower(y.Name))

\* The less function given to sort.Slice.
Less(x, y) ==
    IF x.IsDir # y.IsDir THEN x.IsDir
    ELSE StrLess(ToLower(x.Name), ToLower(y.Name))

Swap(f, i, j) == [f EXCEPT ![i] = f[j], ![j] = f[i]]

\* sort.Slice sorts a slice of at most 12 elements by insertion sort; this
\* is its inner loop, moving element j down while it is less than the one
\* before it.
RECURSIVE InsertDown(_, _)
InsertDown(f, j) ==
    IF j > 1 /\ Less(f[j], f[j - 1])
    THEN InsertDown(Swap(f, j, j - 1), j - 1)
    ELSE f

\* The outer loop of the insertion sort, from element i on.
RECURSIVE InsertionSort(_, _)
InsertionSort(f, i) ==
    IF i > Len(f) THEN f ELSE InsertionSort(InsertDown(f, i), i + 1)

\* sort.Slice(files, less) for a slice of at most 12 elements.
SortSlice(f) == InsertionSort(f, 2)

\* The directory that is requested has the entries S.
Populate(S) ==
    /\ lpc = "idle"
    /\ lpc' = "populated"
    /\ dirContents' = { [Name |-> x[1], IsDir |-> x[2]] : x \in S }
    /\ UNCHANGED <<skipped, files>>
    /\ UNCHANGED <<handlerVars, mainVars, sizeVars>>

\* os.ReadDir and the loop that builds files; Info() fails for the entries
\* in skip.
ReadEntries(skip) ==
    /\ lpc = "populated"
    /\ lpc' = "built"
    /\ skipped' = skip
    /\ files' = BuildFiles(ReadDirOrder(dirContents), skip)
    /\ UNCHANGED dirContents
    /\ UNCHANGED <<handlerVars, mainVars, sizeVars>>

\* sort.Slice(files, ...)
SortFiles ==
    /\ lpc = "built"
    /\ lpc' = "sorted"
    /\ files' = SortSlice(files)
    /\ UNCHANGED <<dirContents, skipped>>
    /\ UNCHANGED <<handlerVars, mainVars, sizeVars>>

ListNext ==
    \/ \E S \in Directories : Populate(S)
    \/ \E skip \in SUBSET dirContents : ReadEntries(skip)
    \/ SortFiles

ListSpec == Init /\ [][ListNext]_vars

----------------------------------------------------------------------------
(* formatSize *)

\* The digits sizes are made of.  51 and 52 lie on either side of 0.05,
\* 972 and 973 on either side of 0.95, 256 is 0.25 exactly.
LeadDigits == {1, 7, 512, 1023}
NextDigits == {0, 51, 52, 256, 512, 972, 973, 1023}
TailDigits == {0, 1, 1023}

\* A size of n digits: a leading digit, a second digit, and the same digit
\* in every lower place.  An int64 has at most 7 digits and a leading
\* digit of at most 7 then; <<7, 1023, ..., 1023>> is the largest int64.
SizesOfLen(n) ==
    { <<a, b>> \o [i \in 1..(n - 2) |-> c] :
        a \in IF n = 7 THEN {1, 7} ELSE LeadDigits,
        b \in NextDigits, c \in TailDigits }

Sizes ==
    { <<a>> : a \in {0} \cup LeadDigits } \cup UNION { SizesOfLen(n) : n \in 2..7 }

\* Number of bits of a digit x >= 1.
BitLen(x) == CHOOSE b \in 1..11 : 2 ^ (b - 1) <= x /\ x < 2 ^ b

\* d with v added at place i, carrying upwards; a carry out of the leading
\* place stays in the leading digit.
RECURSIVE AddAt(_, _, _)
AddAt(d, i, v) ==
    IF i = 1 \/ d[i] + v < 1024
    THEN [d EXCEPT ![i] = d[i] + v]
    ELSE AddAt([d EXCEPT ![i] = d[i] + v - 1024], i - 1, 1)

\* float64(size): an int64 of more than 53 bits is rounded to 53 bits, to
\* nearest and to even on a tie.  At most 10 bits are dropped, all of them
\* in the last digit.
Float64(d) ==
    LET L     == Len(d)
        total == BitLen(d[1]) + 10 * (L - 1)
        drop  == total - 53
    IN  IF d[1] = 0 \/ total <= 53 THEN d
        ELSE IF drop = 10
        THEN LET up   == d[L] > 512 \/ (d[L] = 512 /\ d[L - 1] % 2 = 1)
                 base == [d EXCEPT ![L] = 0]
             IN  IF up THEN AddAt(base, L - 1, 1) ELSE base
        ELSE LET u    == 2 ^ drop
                 hi   == d[L] \div u
                 lo   == d[L] % u
                 up   == 2 * lo > u \/ (2 * lo = u /\ hi % 2 = 1)
                 base == [d EXCEPT ![L] = hi * u]
             IN  IF up THEN AddAt(base, L, u) ELSE base

\* The integer a short digit sequence stands for.
RECURSIVE DigitsValue(_)
DigitsValue(d) ==
    IF d = <<>> THEN 0 ELSE DigitsValue(SubSeq(d, 1, Len(d) - 1)) * 1024 + d[Len(d)]

\* The fraction 0.f (base 1024) times m: the integer part and the digits
\* of the fraction that is left.
RECURSIVE MulFrac(_, _)
MulFrac(f, m) ==
    IF f = <<>> THEN [carry |-> 0, digits |-> <<>>]
    ELSE LET r == MulFrac(Tail(f), m)
             t == Head(f) * m + r.carry
         IN  [carry |-> t \div 1024, digits |-> <<t % 1024>> \o r.digits]

\* Whether the fraction 0.f is "above", "below" or a "tie" with one half.
HalfCompare(f) ==
    IF f = <<>> \/ f[1] < 512 THEN "below"
    ELSE IF f[1] > 512 THEN "above"
    ELSE IF \E i \in 2..Len(f) : f[i] # 0 THEN "above"
    ELSE "tie"

\* Sprintf("%.1f", x) for x = fd / 1024^divPow, fd the digits of a float64:
\* the division by a power of two is exact and the decimal is correctly
\* rounded, to even on a tie.  The result is the number of tenths.
Tenths(fd, divPow) ==
    LET cut   == IF Len(fd) > divPow THEN Len(fd) - divPow ELSE 0
        whole == DigitsValue(SubSeq(fd, 1, cut))
        pad   == [i \in 1..(divPow - Len(fd)) |-> 0]
        frac  == pad \o SubSeq(fd, cut + 1, Len(fd))
        m     == MulFrac(frac, 10)
        t     == 10 * whole + m.carry
        h     == HalfCompare(m.digits)
    IN  IF h = "above" \/ (h = "tie" /\ t % 2 = 1) THEN t + 1 ELSE t

\* The unit letters, "KMGTPE".
Units == <<"K", "M", "G", "T", "P", "E">>

\* size / unit on the digits: the last digit is dropped.
DivUnit(n) == IF Len(n) = 1 THEN <<0>> ELSE SubSeq(n, 1, Len(n) - 1)

\* A faulty loop condition, n > unit.
LoopContinuesMut(n) == Len(n) >= 2 /\ n # <<1, 0>>

\* The loop condition, n >= unit.
LoopContinues(n) == Len(n) >= 2

\* for n := size / unit; n >= unit; n /= unit { div *= unit; exp++ },
\* with div held as its exponent of 1024.
RECURSIVE SizeLoop(_, _, _)
SizeLoop(n, divPow, exp) ==
    IF LoopContinues(n)
    THEN SizeLoop(DivUnit(n), divPow + 1, exp + 1)
    ELSE [divPow |-> divPow, exp |-> exp]

\* formatSize; indexing "KMGTPE" past its end panics.
formatSize(d) ==
    IF Len(d) = 1
    THEN ToString(d[1]) \o " B"
    ELSE LET l == SizeLoop(DivUnit(d), 1, 0)
             t == Tenths(Float64(d), l.divPow)
         IN  IF l.exp + 1 > Len(Units) THEN "panic"
             ELSE ToString(t \div 10) \o "." \o ToString(t % 10) \o " "
                    \o Units[l.exp + 1] \o "B"

\* formatSize is called with a size.
CallFormatSize(d) ==
    /\ fpc = "idle"
    /\ fpc' = "called"
    /\ size' = d
    /\ UNCHANGED sizeStr
    /\ UNCHANGED <<handlerVars, mainVars, listVars>>

\* formatSize returns.
ReturnFormatSize ==
    /\ fpc = "called"
    /\ fpc' = "returned"
    /\ sizeStr' = formatSize(size)
    /\ UNCHANGED size
    /\ UNCHANGED <<handlerVars, mainVars, listVars>>

SizeNext ==
    \/ \E d \in Sizes : CallFormatSize(d)
    \/ ReturnFormatSize

SizeSpec == Init /\ [][SizeNext]_vars

----------------------------------------------------------------------------
(* Properties *)

\* The safety check has accepted the current request's path.
Accepted == fullPath # <<>>

\* The calls made on the filesystem so far that read the entry at path p:
\* a directory enumeration, a file open or a read of file content.
ReadsOf(p) ==
    { i \in DOMAIN ops : ops[i][1] \in {"ReadDir", "Open", "Read"} /\ ops[i][2] = p }

\* The content responder has opened the target.
FileOpened == \E i \in DOMAIN ops : ops[i][1] = "Open"

\* C1: whenever isPathSafe accepts a request path, the absolute path it
\* examined (the cleaned path joined onto the root) is the root or begins
\* with the root followed by a separator.
C1_AcceptedPathInsideRoot ==
    Accepted => Inside(SafeAbsPath(rootDir, requestPath), rootDir)

\* C2: for every GET request not rejected by the safety check, the path
\* the handler stats, enumerates or opens (fullPath) is the path isPathSafe
\* validated and lies inside the root.
C2_TargetIsValidatedPath ==
    (method = "GET" /\ Accepted) =>
        /\ fullPath = SafeAbsPath(rootDir, requestPath)
        /\ Inside(fullPath, rootDir)

\* C3: every GET request whose path, joined onto the root and normalized,
\* lies outside the root goes no further than the safety check: it is
\* answered with 403 (so never with 200), and the 403 body is the fixed
\* text, without any filesystem path.
C3_EscapeAnswered403 ==
    (method = "GET" /\ pc \notin {"idle", "checkMethod", "checkPath"}
        /\ ~Inside(FullPath(rootDir, requestPath), rootDir)) =>
        /\ pc = "done"
        /\ w.status = 403
        /\ w.body = <<"Access denied">>

\* C4: a request whose method is not GET is answered with 405 whatever its
\* path, and by then neither the safety check nor any filesystem call has
\* been made, no goroutine started and no handle opened.
C4_NonGetIs405 ==
    (method # "GET" /\ pc \notin {"idle", "checkMethod"}) =>
        /\ pc = "done"
        /\ w.status = 405
        /\ ops = <<>>
        /\ gpc = "none"
        /\ handles = {}

\* C4 witness: a POST with a path the safety check would reject has been
\* answered.
C4_Witness ==
    /\ pc = "done"
    /\ method = "POST"
    /\ ~isPathSafe(rootDir, requestPath)
    /\ w.status = 405

\* C5 as stated: for every GET request that passed the safety check the
\* stat alone decides the status: the stat is made, missing gives 404, a
\* permission error 403, any other error 500, and a responder runs only
\* after a successful stat.
C5_StatAloneDecides ==
    /\ (pc = "done" /\ method = "GET" /\ Accepted) =>
          /\ statRes # "none"
          /\ statRes = "notexist" => w.status = 404
          /\ statRes = "permission" => w.status = 403
          /\ statRes = "ioerror" => w.status = 500
    /\ (gpc # "none" \/ FileOpened) => statRes \in StatTypes

\* C5 amended: for every GET request that passed the safety check, either
\* the root health check failed and the answer is 503 with no stat made,
\* or it succeeded and the stat decides: missing gives 404, a permission
\* error 403, any other error 500; a responder runs only after a
\* successful stat.
C5_StatDecidesAfterHealthCheck ==
    /\ (pc = "done" /\ method = "GET" /\ Accepted) =>
          \/ /\ mountRes = "err"
             /\ statRes = "none"
             /\ w.status = 503
          \/ /\ mountRes = "ok"
             /\ statRes # "none"
             /\ statRes = "notexist" => w.status = 404
             /\ statRes = "permission" => w.status = 403
             /\ statRes = "ioerror" => w.status = 500
    /\ (gpc # "none" \/ FileOpened) => (mountRes = "ok" /\ statRes \in StatTypes)

\* C5 witness: a request that passed the safety check and the health check
\* met a permission error at the stat and was answered 403.
C5_Witness ==
    /\ pc = "done"
    /\ method = "GET"
    /\ mountRes = "ok"
    /\ statRes = "permission"
    /\ w.status = 403

\* C6: after a successful stat a directory goes to the listing renderer
\* and a regular file to the content responder; an entry of any other type
\* is never opened or read and is answered with 400 or 404.
C6_SpecialNeverStreamed ==
    /\ statRes = "dir" => ~FileOpened
    /\ statRes = "file" => gpc = "none"
    /\ statRes = "special" =>
          /\ ~FileOpened
          /\ gpc = "none"
          /\ pc = "done" => w.status \in {400, 404}

\* C7: when the deadline has passed before the handler finished the
\* filesystem and rendering work of a request, the response is 408 and no
\* directory read is still in flight.
C7_DeadlineGives408 ==
    (pc = "done" /\ ctxDone /\ Accepted) =>
        /\ w.status = 408
        /\ gpc \notin {"open", "reading"}

\* C8: every read of the target (a directory enumeration, an open or a
\* content read at fullPath) comes after the safety check and after the
\* stat of the target, for every target including the root itself.
C8_ChecksBeforeRead ==
    Accepted =>
        \A i \in ReadsOf(fullPath) :
            /\ \E j \in 1..(i - 1) : ops[j][1] = "isPathSafe"
            /\ \E k \in 1..(i - 1) : ops[k] = <<"Stat", fullPath>>

\* C9: when the handler has returned, every handle opened for the request
\* has been released.
C9_HandlesReleasedOnReturn ==
    pc = "done" => handles = {}

\* C10: when template rendering has failed, the response is the 500 error
\* and nothing else: status 500 and no part of the page in the body.
C10_RenderFailureIsOnly500 ==
    renderRes = "failed" =>
        /\ w.status = 500
        /\ w.body = <<"Internal server error">>

\* The process has ended.
Exited == exitCode # -1

\* C11 as stated: once a signal has arrived the process ends with status 0
\* (after it stopped accepting and closed what remained), and once the
\* listener has failed to start the process ends with a non-zero status.
C11_SignalExitsZeroErrorExitsNonZero ==
    Exited =>
        /\ sigArrived => (exitCode = 0 /\ ~listening /\ active = 0)
        /\ startErr => exitCode # 0

\* C11 amended: the process only ends after a signal or a listener startup
\* error.  After a signal with no startup error it ends with status 0,
\* after a startup error with no signal it ends with status 1, and after
\* both it ends with 0 or 1.  While Shutdown waits for requests in flight
\* no new connection is accepted, the wait ends at the latest when the 30s
\* context expires, and the exit leaves no listener and no connection.
\* Every signal and every startup error is followed by the exit.
C11_ShutdownOrFatal ==
    /\ [](Exited =>
            /\ sigArrived \/ startErr
            /\ exitCode \in {0, 1}
            /\ (sigArrived /\ ~startErr) => exitCode = 0
            /\ (startErr /\ ~sigArrived) => exitCode = 1
            /\ ~listening
            /\ active = 0)
    /\ [](mpc = "draining" => ~listening)
    /\ (sigArrived ~> Exited)
    /\ (startErr ~> Exited)

\* C11 witness: after a signal and no startup error, the 30s context
\* expired with requests still in flight and the process ended with 0.
C11_Witness ==
    /\ exitCode = 0
    /\ graceDone
    /\ sigArrived
    /\ ~startErr
    /\ active = 0

\* The entries a rendering lists: those whose Info() succeeded.
Listed == dirContents \ skipped

UnitNames == <<"KB", "MB", "GB", "TB", "PB", "EB">>

\* The largest k with 1024^k <= n: one less than the number of base-1024
\* digits of n.
UnitIndex(d) == Len(d) - 1

\* t tenths are n / 1024^k to one decimal place: within half a tenth of it.
\* Decided exactly for sizes below 8 MiB, whose arithmetic fits an integer.
NearestTenth(t, d) ==
    LET P == 1024 ^ UnitIndex(d)
        N == DigitsValue(d)
    IN  /\ 2 * t * P - 20 * N <= P
        /\ 20 * N - 2 * t * P <= P

\* C13: formatSize(n) is the integer count and " B" below 1024; otherwise
\* it is n / 1024^k to exactly one decimal place and the k-th unit of KB,
\* MB, GB, TB, PB, EB, k the largest exponent with 1024^k <= n.  0 gives
\* "0 B", 1023 "1023 B", 1024 "1.0 KB", 1536 "1.5 KB", 1048576 "1.0 MB",
\* and no 64-bit size indexes past EB.  Above 8 MiB the number shown is
\* checked to lie between the leading digit and the leading digit plus one.
C13_FormatSize ==
    fpc = "returned" =>
        /\ sizeStr # "panic"
        /\ Len(size) = 1 => sizeStr = ToString(size[1]) \o " B"
        /\ Len(size) >= 2 =>
             /\ UnitIndex(size) \in 1..Len(UnitNames)
             /\ \E t \in (10 * size[1])..(10 * size[1] + 10) :
                  /\ sizeStr = ToString(t \div 10) \o "." \o ToString(t % 10)
                                 \o " " \o UnitNames[UnitIndex(size)]
                  /\ (Len(size) = 2 \/ (Len(size) = 3 /\ size[1] <= 7))
                        => NearestTenth(t, size)
        /\ size = <<0>> => sizeStr = "0 B"
        /\ size = <<1023>> => sizeStr = "1023 B"
        /\ size = <<1, 0>> => sizeStr = "1.0 KB"
        /\ size = <<1, 512>> => sizeStr = "1.5 KB"
        /\ size = <<1, 0, 0>> => sizeStr = "1.0 MB"

\* formatSize has returned for the largest int64, 2^63 - 1, in exabytes.
C13_Witness ==
    /\ fpc = "returned"
    /\ size = <<7, 1023, 1023, 1023, 1023, 1023, 1023>>
    /\ sizeStr = "8.0 EB"

\* The handler is past the select of handleDirectory.
PastSelect == gpc # "none" /\ pc \in {"render", "done"}

\* C14: once the directory read has completed, in whatever order with the
\* deadline, the goroutine's send has room in the channel (also when the
\* handler has answered 408 and returned) and the goroutine then ends; a
\* select with a ready case proceeds; and past the select the handler has
\* either received the result or answered 408, not both: a result received
\* means no 408, and a 408 means the result was never received.
C14_NoDeadlockNoLeak ==
    /\ [](gpc = "send" => CanSend(resultChan))
    /\ (gpc = "send") ~> (gpc = "exited")
    /\ (pc = "select" /\ (ctxDone \/ resultChan # <<>>)) ~> (pc # "select")
    /\ [](PastSelect => ((readRes # "none") # (w.status = 408)))
    /\ [](PastSelect /\ readRes # "none" => resultChan = <<>>)

\* The handler answered 408 and returned, and the goroutine's send has gone
\* through all the same: the result sits in the channel, never received, and
\* the goroutine has ended.
C14_Witness ==
    /\ pc = "done"
    /\ w.status = 408
    /\ readRes = "none"
    /\ gpc = "exited"
    /\ resultChan # <<>>

====
